---- MODULE Spec2Model ----
(***************************************************************************)
(* The Razorpay payment webhook of api/payment-webhook.ts and the          *)
(* eventsregistrations table it writes to.                                 *)
(*                                                                         *)
(* Every handler invocation is one process: it runs the synchronous part   *)
(* of the handler (method gate, configuration gate, event filter, field    *)
(* validation, normalisation) in one step up to the awaited insert, the    *)
(* store then processes the insert in one step of its own, and the handler *)
(* resumes and answers.  Invocations interleave freely; they share only    *)
(* the table.                                                              *)
(*                                                                         *)
(* JavaScript values are records tagged with their typeof; strings are     *)
(* sequences of one-character strings.                                     *)
(***************************************************************************)
EXTENDS Integers, Sequences, FiniteSets, TLC

(* The number of handler invocations (deliveries) of a behaviour. *)
MaxDeliveries == 2

Invocations == 1..MaxDeliveries

----------------------------------------------------------------------------
(* JavaScript values *)

JUndef == [t |-> "undefined"]
JStr(s) == [t |-> "string", s |-> s]
JNum(n) == [t |-> "number", n |-> n]

(* typeof v *)
TypeOf(v) == v.t

(* !!v *)
Truthy(v) ==
  CASE v.t = "undefined" -> FALSE
    [] v.t = "null" -> FALSE
    [] v.t = "string" -> Len(v.s) > 0
    [] v.t = "number" -> v.n # 0
    [] OTHER -> TRUE

(* String.prototype.toLowerCase, on the letters A-Z *)
UpperLetters == <<"A","B","C","D","E","F","G","H","I","J","K","L","M",
                  "N","O","P","Q","R","S","T","U","V","W","X","Y","Z">>
LowerLetters == <<"a","b","c","d","e","f","g","h","i","j","k","l","m",
                  "n","o","p","q","r","s","t","u","v","w","x","y","z">>

LowerChar(c) ==
  IF \E k \in DOMAIN UpperLetters : UpperLetters[k] = c
  THEN LowerLetters[CHOOSE k \in DOMAIN UpperLetters : UpperLetters[k] = c]
  ELSE c

ToLowerCase(s) == [k \in DOMAIN s |-> LowerChar(s[k])]

(* String.prototype.trim: white space is removed from both ends only *)
WhiteSpace == {" ", "\t", "\n", "\r"}

RECURSIVE TrimStart(_)
TrimStart(s) ==
  IF s # <<>> /\ Head(s) \in WhiteSpace THEN TrimStart(Tail(s)) ELSE s

RECURSIVE TrimEnd(_)
TrimEnd(s) ==
  IF s # <<>> /\ s[Len(s)] \in WhiteSpace
  THEN TrimEnd(SubSeq(s, 1, Len(s) - 1))
  ELSE s

Trim(s) == TrimEnd(TrimStart(s))

(* Math.round(num / den) for integers num and den > 0: floor(x + 1/2) *)
MathRound(num, den) == (2 * num + den) \div (2 * den)

(* String.prototype.includes, on a message given as its words *)
Includes(message, word) == \E k \in DOMAIN message : message[k] = word

----------------------------------------------------------------------------
(* The request and its payload *)

JNull == [t |-> "null"]
JArray(rows) == [t |-> "array", rows |-> rows]

(* `${v}` in a template literal *)
TemplateString(v) ==
  IF v.t = "undefined" THEN <<"u","n","d","e","f","i","n","e","d">> ELSE v.s

PaymentCaptured ==
  <<"p","a","y","m","e","n","t",".","c","a","p","t","u","r","e","d">>

(* payment?.id, payment?.email, payment?.amount, payment?.notes,
   payment?.notes?.event_id *)
PaymentId(payment) == IF payment.t = "object" THEN payment.id ELSE JUndef
PaymentEmail(payment) == IF payment.t = "object" THEN payment.email ELSE JUndef
PaymentAmount(payment) == IF payment.t = "object" THEN payment.amount ELSE JUndef
PaymentNotes(payment) == IF payment.t = "object" THEN payment.notes ELSE JUndef
NotesEventId(payment) ==
  IF PaymentNotes(payment).t = "object"
  THEN PaymentNotes(payment).event_id
  ELSE JUndef

----------------------------------------------------------------------------
(* The handler.  Each part of it yields an outcome: a response to send, an
   insert to await, an exception, or "next" when it lets the request pass. *)

Respond(status, body) == [k |-> "respond", status |-> status, body |-> body]
AwaitInsert(registrationData, amountInRupees, payment) ==
  [k |-> "insert", registrationData |-> registrationData,
   amountInRupees |-> amountInRupees, payment |-> payment]
Throw == [k |-> "throw"]
Pass == [k |-> "next"]

(* A handler with no branch for the preflight. *)
NoPreflight(req) == Pass

(* if (req.method === 'OPTIONS') return res.status(200).end() *)
Preflight(req) ==
  IF req.method = "OPTIONS" THEN Respond(200, [end |-> TRUE]) ELSE Pass

(* if (req.method !== 'POST') return res.status(405).json(...) *)
MethodGate(req) ==
  IF req.method # "POST"
  THEN Respond(405, [error |-> "Method not allowed. Only POST requests are accepted.",
                     allowed_methods |-> <<"POST">>])
  ELSE Pass

(* A gate that looks at the endpoint URL only. *)
UrlMissing(e) == ~Truthy(e.SUPABASE_URL)

(* !process.env.SUPABASE_URL || !process.env.SUPABASE_SERVICE_ROLE_KEY *)
CredentialsMissing(e) ==
  ~Truthy(e.SUPABASE_URL) \/ ~Truthy(e.SUPABASE_SERVICE_ROLE_KEY)

ConfigGate(e) ==
  IF CredentialsMissing(e)
  THEN Respond(500, [error |-> "Server configuration error: Missing Supabase credentials"])
  ELSE Pass

(* An answer to an ignored event that does not name the event. *)
IgnoredBodyUnnamed(event) ==
  [message |-> "Event ignored. Only payment.captured events are processed."]

(* The body of an ignored event's answer: the message names the event. *)
IgnoredBody(event) ==
  [message |-> "Event ignored. Only payment.captured events are processed. Received: ",
   received |-> TemplateString(event)]

(* payload.event !== 'payment.captured' *)
EventFilter(payload) ==
  IF payload.event # JStr(PaymentCaptured)
  THEN Respond(200, IgnoredBody(payload.event))
  ELSE Pass

(* The four checks, each pushing its field's name, in the code's order. *)
MissingFields(payment) ==
     (IF ~Truthy(PaymentId(payment)) THEN <<"payment.id">> ELSE <<>>)
  \o (IF ~Truthy(PaymentEmail(payment)) THEN <<"payment.email">> ELSE <<>>)
  \o (IF TypeOf(PaymentAmount(payment)) # "number" THEN <<"payment.amount">> ELSE <<>>)
  \o (IF ~Truthy(NotesEventId(payment)) THEN <<"payment.notes.event_id">> ELSE <<>>)

ReceivedData(payment) ==
  [hasPayment |-> Truthy(payment),
   hasId |-> Truthy(PaymentId(payment)),
   hasEmail |-> Truthy(PaymentEmail(payment)),
   hasAmount |-> TypeOf(PaymentAmount(payment)),
   hasNotes |-> Truthy(PaymentNotes(payment)),
   hasEventId |-> Truthy(NotesEventId(payment))]

Validation(payment) ==
  IF Len(MissingFields(payment)) > 0
  THEN Respond(400, [error |-> "Missing required payment data",
                     missing_fields |-> MissingFields(payment),
                     received_data |-> ReceivedData(payment)])
  ELSE Pass

(* The amount truncated instead of rounded. *)
AmountTruncated(amount) == amount.n \div 100

(* Math.round(payment.amount / 100) *)
AmountInRupees(amount) == MathRound(amount.n, 100)

(* The email copied as it arrived. *)
EmailVerbatim(s) == s

(* payment.email.toLowerCase().trim() *)
NormalizeEmail(s) == Trim(ToLowerCase(s))

(* The record to insert; toLowerCase is no method of a value that is not a
   string, and calling it throws a TypeError. *)
RegistrationData(payment) ==
  [event_id |-> payment.notes.event_id,
   user_email |-> JStr(NormalizeEmail(payment.email.s)),
   amount |-> AmountInRupees(payment.amount),
   payment_id |-> payment.id,
   status |-> "success"]

Normalization(payment) ==
  IF TypeOf(payment.email) # "string"
  THEN Throw
  ELSE AwaitInsert(RegistrationData(payment), AmountInRupees(payment.amount), payment)

(* The try block up to the awaited insert. *)
TryBlock(req, e) ==
  IF ConfigGate(e).k # "next" THEN ConfigGate(e)
  ELSE IF req.body.t = "unparseable" THEN Throw      \* the req.body getter throws
  ELSE IF req.body.t = "undefined" THEN Throw        \* payload.event of undefined
  ELSE IF EventFilter(req.body).k # "next" THEN EventFilter(req.body)
  ELSE IF Validation(req.body.payment).k # "next" THEN Validation(req.body.payment)
  ELSE Normalization(req.body.payment)

(* A handler without the catch block. *)
Uncaught(outcome) == outcome

(* catch (error) { ... return res.status(500).json(...) } *)
Catch(outcome) ==
  IF outcome.k = "throw"
  THEN Respond(500, [error |-> "Internal server error while processing webhook",
                     details |-> <<"TypeError">>])
  ELSE outcome

(* The handler from its entry to its first return or to the awaited insert. *)
Handler(req, e) ==
  IF Preflight(req).k # "next" THEN Preflight(req)
  ELSE IF MethodGate(req).k # "next" THEN MethodGate(req)
  ELSE Catch(TryBlock(req, e))

(* A handler that tells no duplicate from a failure. *)
EveryErrorFails(error) == FALSE

(* error.code === '23505' && error.message.includes('payment_id') *)
IsDuplicatePayment(error) ==
  error.code = "23505" /\ Includes(error.message, "payment_id")

(* A handler that sends the insert again when the store failed it. *)
RetryOnFailure(res, amountInRupees, payment) ==
  IF res.error.t # "null"
  THEN IF IsDuplicatePayment(res.error)
       THEN Respond(200, [message |-> "Payment already processed",
                          payment_id |-> payment.id,
                          duplicate |-> TRUE])
       ELSE AwaitInsert(RegistrationData(payment), amountInRupees, payment)
  ELSE IF res.data.t = "null" \/ Len(res.data.rows) = 0
  THEN Respond(500, [error |-> "Registration may not have been saved properly"])
  ELSE Respond(200, [message |-> "Payment processed and registration saved successfully",
                     registration_id |-> res.data.rows[1].id,
                     event_id |-> res.data.rows[1].event_id,
                     amount_rupees |-> amountInRupees])

(* The try block after the awaited insert has returned { data, error }. *)
AfterInsert(result, amountInRupees, payment) ==
  IF result.error.t # "null"
  THEN IF IsDuplicatePayment(result.error)
       THEN Respond(200, [message |-> "Payment already processed",
                          payment_id |-> payment.id,
                          duplicate |-> TRUE])
       ELSE Respond(500, [error |-> "Failed to save registration data",
                          details |-> result.error.message,
                          code |-> result.error.code])
  ELSE IF result.data.t = "null" \/ Len(result.data.rows) = 0
  THEN Respond(500, [error |-> "Registration may not have been saved properly"])
  ELSE Respond(200, [message |-> "Payment processed and registration saved successfully",
                     registration_id |-> result.data.rows[1].id,
                     event_id |-> result.data.rows[1].event_id,
                     amount_rupees |-> amountInRupees])

----------------------------------------------------------------------------
(* The eventsregistrations table *)

(* A table whose payment_id column carries no UNIQUE constraint. *)
NoUniqueConstraint(rows, record) == FALSE

(* payment_id text UNIQUE NOT NULL *)
UniqueViolation(rows, record) ==
  \E k \in DOMAIN rows : rows[k].payment_id = record.payment_id

(* The row an insert adds: id and created_at are the table's defaults. *)
NewRow(rows, record) ==
  [id |-> Len(rows) + 1,
   event_id |-> record.event_id,
   user_email |-> record.user_email,
   amount |-> record.amount,
   payment_id |-> record.payment_id,
   status |-> record.status,
   created_at |-> Len(rows) + 1]

(* What PostgREST reports for a violation of the constraint on payment_id. *)
DuplicateKeyError ==
  [t |-> "object", code |-> "23505",
   message |-> <<"duplicate key value violates unique constraint",
                 "eventsregistrations", "payment_id", "key">>]

(* Failures of an insert that are no violation of that constraint. *)
OtherFailures ==
  { [t |-> "object", code |-> "", message |-> <<"fetch failed">>],
    [t |-> "object", code |-> "42501",
     message |-> <<"new row violates row-level security policy">>],
    [t |-> "object", code |-> "23505",
     message |-> <<"duplicate key value violates unique constraint",
                   "eventsregistrations", "pkey">>] }

----------------------------------------------------------------------------
(* The requests explored *)

Payment(id, email, amount, notes) ==
  [t |-> "object", id |-> id, email |-> email, amount |-> amount, notes |-> notes]
Notes(event_id) == [t |-> "object", event_id |-> event_id]
Body(event, payment) == [t |-> "object", event |-> event, payment |-> payment]
Request(method, body) == [method |-> method, body |-> body]

Pay1 == <<"p","a","y","_","1">>
Pay2 == <<"p","a","y","_","2">>
EventA == <<"e","v","e","n","t","_","a">>
MixedEmail ==
  <<" "," ","U","s","e","r","@","E","x","a","m","p","l","e",".","C","O","M"," ">>
PlainEmail == <<"u","s","e","r","@","e","x","a","m","p","l","e",".","c","o","m">>

Methods == {"POST", "OPTIONS", "GET"}
Events ==
  {JUndef, JStr(PaymentCaptured),
   JStr(<<"p","a","y","m","e","n","t",".","f","a","i","l","e","d">>)}
Ids == {JUndef, JStr(<<>>), JStr(Pay1), JStr(Pay2), JNum(123)}
Emails ==
  {JUndef, JStr(<<>>), JStr(MixedEmail), JStr(PlainEmail), JStr(<<" ">>),
   JStr(<<"\t","A"," ","b","\n">>), JNum(42)}
Amounts == {0, 49, 50, 150, 250, 10000, 12345, -150}
AmountValues == {JUndef, JStr(<<"1","0","0">>)} \cup {JNum(a) : a \in Amounts}
NotesValues ==
  {JUndef, Notes(JUndef), Notes(JStr(<<>>)), Notes(JStr(EventA)), Notes(JNum(7))}

Payments ==
  {JUndef} \cup
  {Payment(id, email, amount, notes) :
     id \in Ids, email \in Emails, amount \in AmountValues, notes \in NotesValues}
Bodies ==
  {JUndef, [t |-> "unparseable"]} \cup
  {Body(event, payment) : event \in Events, payment \in Payments}

(* Every request of the bounded input space. *)
AllRequests == {Request(method, body) : method \in Methods, body \in Bodies}

(* The deliveries that race: two payments, each in two renderings, beside a
   request of each kind that never reaches the store. *)
RaceRequests ==
  {Request("POST", Body(JStr(PaymentCaptured),
                        Payment(JStr(id), JStr(email[1]), JNum(email[2]),
                                Notes(JStr(EventA))))) :
     id \in {Pay1, Pay2}, email \in {<<MixedEmail, 150>>, <<PlainEmail, 12345>>}}
  \cup {Request("POST", Body(Events_failed, JUndef)) :
          Events_failed \in Events \ {JStr(PaymentCaptured)}}
  \cup {Request("POST", Body(JStr(PaymentCaptured),
                             Payment(JStr(Pay1), JUndef, JNum(150), Notes(JStr(EventA))))),
        Request("POST", JUndef),
        Request("GET", JUndef)}

Environments ==
  [SUPABASE_URL : {JUndef, JStr(<<"u","r","l">>)},
   SUPABASE_SERVICE_ROLE_KEY : {JUndef, JStr(<<"k","e","y">>)}]

Configured ==
  [SUPABASE_URL |-> JStr(<<"u","r","l">>),
   SUPABASE_SERVICE_ROLE_KEY |-> JStr(<<"k","e","y">>)]

----------------------------------------------------------------------------
(* State *)

VARIABLES
  env,       \* process.env: the two credentials
  store,     \* the rows of eventsregistrations, in insertion order
  pc,        \* where each invocation is: idle, awaiting, returned, done, crashed
  req,       \* the request each invocation was given
  pending,   \* the insert an invocation awaits, with the locals it resumes with
  result,    \* { data, error } as the store returned it to the invocation
  attempts,  \* the inserts each invocation has sent to the store
  sent       \* the responses each invocation has sent

vars == <<env, store, pc, req, pending, result, attempts, sent>>

NoRequest == [method |-> "none"]
NoInsert == [k |-> "none"]
NoResult == [k |-> "none"]

InitInvocations ==
  /\ pc = [i \in Invocations |-> "idle"]
  /\ req = [i \in Invocations |-> NoRequest]
  /\ pending = [i \in Invocations |-> NoInsert]
  /\ result = [i \in Invocations |-> NoResult]
  /\ attempts = [i \in Invocations |-> 0]
  /\ sent = [i \in Invocations |-> <<>>]

Init ==
  /\ env \in Environments
  /\ store = <<>>
  /\ InitInvocations

(* What an outcome does to the invocation: a response is sent and the handler
   returns; an insert is sent to the store and awaited; an exception that
   nothing caught leaves the handler without a response. *)
Dispatch(i, outcome) ==
  /\ pc' = [pc EXCEPT ![i] = CASE outcome.k = "respond" -> "done"
                               [] outcome.k = "insert" -> "awaiting"
                               [] OTHER -> "crashed"]
  /\ sent' = [sent EXCEPT ![i] =
                IF outcome.k = "respond"
                THEN Append(@, [status |-> outcome.status, body |-> outcome.body])
                ELSE @]
  /\ attempts' = [attempts EXCEPT ![i] = IF outcome.k = "insert" THEN @ + 1 ELSE @]
  /\ pending' = [pending EXCEPT ![i] = IF outcome.k = "insert" THEN outcome ELSE @]

(* An invocation of the handler, given one of the requests, runs up to its
   first return or await. *)
Receive(i, requests) ==
  /\ pc[i] = "idle"
  /\ \E r \in requests :
       /\ req' = [req EXCEPT ![i] = r]
       /\ Dispatch(i, Handler(r, env))
  /\ UNCHANGED <<env, store, result>>

(* The store executes an awaited insert: the constraint on payment_id rejects
   it, or the row is added and returned (or, by a store anomaly, not returned). *)
StoreInsert(i) ==
  /\ pc[i] = "awaiting"
  /\ IF UniqueViolation(store, pending[i].registrationData)
     THEN /\ result' = [result EXCEPT ![i] = [error |-> DuplicateKeyError, data |-> JNull]]
          /\ UNCHANGED store
     ELSE /\ store' = Append(store, NewRow(store, pending[i].registrationData))
          /\ \E returned \in BOOLEAN :
               result' = [result EXCEPT ![i] =
                 [error |-> JNull,
                  data |-> JArray(IF returned
                                  THEN <<NewRow(store, pending[i].registrationData)>>
                                  ELSE <<>>)]]
  /\ pc' = [pc EXCEPT ![i] = "returned"]
  /\ UNCHANGED <<env, req, pending, attempts, sent>>

(* The insert fails for another reason and adds no row. *)
StoreFail(i, failure) ==
  /\ pc[i] = "awaiting"
  /\ result' = [result EXCEPT ![i] = [error |-> failure, data |-> JNull]]
  /\ pc' = [pc EXCEPT ![i] = "returned"]
  /\ UNCHANGED <<env, store, req, pending, attempts, sent>>

(* The invocation resumes after the await and answers. *)
Resume(i) ==
  /\ pc[i] = "returned"
  /\ Dispatch(i, Catch(AfterInsert(result[i], pending[i].amountInRupees,
                                   pending[i].payment)))
  /\ UNCHANGED <<env, store, req, result>>

(* Deliveries of the racing requests, in any interleaving. *)
Next ==
  \E i \in Invocations :
    \/ Receive(i, RaceRequests)
    \/ StoreInsert(i)
    \/ \E failure \in OtherFailures : StoreFail(i, failure)
    \/ Resume(i)

Spec == Init /\ [][Next]_vars

(* One delivery of any request of the input space, to a table that is empty
   or holds the row of an earlier delivery of payment pay_1. *)
EarlierDelivery ==
  Payment(JStr(Pay1), JStr(PlainEmail), JNum(10000), Notes(JStr(EventA)))

PriorStores == {<<>>, <<NewRow(<<>>, RegistrationData(EarlierDelivery))>>}

InitOne ==
  /\ env \in Environments
  /\ store \in PriorStores
  /\ InitInvocations

NextOne ==
  \/ Receive(1, AllRequests)
  \/ StoreInsert(1)
  \/ \E failure \in OtherFailures : StoreFail(1, failure)
  \/ Resume(1)

SpecOne == InitOne /\ [][NextOne]_vars

----------------------------------------------------------------------------
(* What the specification says of a request, stated apart from the handler *)

Range(seq) == {seq[k] : k \in DOMAIN seq}

Started(i) == pc[i] # "idle"
IsPost(i) == req[i].method = "POST"
HasPayload(i) == req[i].body.t = "object"
IsCaptured(i) == HasPayload(i) /\ req[i].body.event = JStr(PaymentCaptured)

NonEmptyString(v) == v.t = "string" /\ v.s # <<>>

RequiredFields ==
  {"payment.id", "payment.email", "payment.amount", "payment.notes.event_id"}

(* A required field that is missing, empty or of the wrong type. *)
FieldOffends(payment, field) ==
  CASE field = "payment.id" -> ~NonEmptyString(PaymentId(payment))
    [] field = "payment.email" -> ~NonEmptyString(PaymentEmail(payment))
    [] field = "payment.amount" -> PaymentAmount(payment).t # "number"
    [] field = "payment.notes.event_id" -> ~NonEmptyString(NotesEventId(payment))

Offending(payment) == {field \in RequiredFields : FieldOffends(payment, field)}

(* A POST of a payment.captured notification, with the credentials set. *)
CapturedDelivery(i) ==
  Started(i) /\ IsPost(i) /\ env = Configured /\ IsCaptured(i)

(* A delivery of a valid payment.captured notification. *)
ValidDelivery(i) ==
  CapturedDelivery(i) /\ Offending(req[i].body.payment) = {}

(* The invocation's insert added a row: the store returned no error. *)
InsertedRow(i) == result[i] # NoResult /\ result[i].error = JNull

(* The store failed the invocation's insert for another reason than the
   constraint on payment_id. *)
FailedOtherwise(i) == result[i] # NoResult /\ result[i].error \in OtherFailures

(* The store added the row and returned none. *)
ReturnedNoRow(i) == InsertedRow(i) /\ result[i].data = JArray(<<>>)

RowsOf(payment_id) == {k \in DOMAIN store : store[k].payment_id = payment_id}

DuplicateResponse(payment_id) ==
  [status |-> 200,
   body |-> [message |-> "Payment already processed",
             payment_id |-> payment_id,
             duplicate |-> TRUE]]

----------------------------------------------------------------------------
(* C1: in every reachable state, whatever deliveries the handler has
   processed and however their inserts interleaved, the table holds at most
   one row for each payment_id. *)
C1_AtMostOneRecordPerPayment ==
  \A k, l \in DOMAIN store :
    store[k].payment_id = store[l].payment_id => k = l

(* Two overlapping invocations have had their inserts for the same payment
   executed and neither has answered yet: one insert added the row, the
   other met the constraint. *)
C1_Witness ==
  \E i, j \in Invocations :
    /\ i # j
    /\ pc[i] = "returned" /\ pc[j] = "returned"
    /\ pending[i].registrationData.payment_id = pending[j].registrationData.payment_id
    /\ result[i].error = JNull
    /\ result[j].error = DuplicateKeyError
    /\ Cardinality(RowsOf(pending[i].registrationData.payment_id)) = 1

(* C2: when the identical valid payment.captured notification has been
   delivered twice and the store has answered both inserts (neither failed
   for an unrelated reason), the table holds exactly one row for its
   payment_id, at most one of the two deliveries is the one whose insert
   added a row, and every other one was answered 200 with duplicate: true
   and the payment_id, never with an error. *)
C2_Idempotent ==
  \A i, j \in Invocations :
    ( /\ i # j
      /\ req[i] = req[j]
      /\ ValidDelivery(i) /\ ValidDelivery(j)
      /\ pc[i] = "done" /\ pc[j] = "done"
      /\ ~FailedOtherwise(i) /\ ~FailedOtherwise(j) )
    => /\ Cardinality(RowsOf(req[i].body.payment.id)) = 1
       /\ ~(InsertedRow(i) /\ InsertedRow(j))
       /\ \A h \in {i, j} :
            \/ /\ InsertedRow(h) /\ Len(sent[h]) = 1
               /\ ~ReturnedNoRow(h) => sent[h][1].status = 200
            \/ sent[h] = <<DuplicateResponse(req[h].body.payment.id)>>

(* The same notification was delivered twice: the first delivery was
   answered with the registration, the second as a duplicate. *)
C2_Witness ==
  \E i, j \in Invocations :
    /\ i # j
    /\ req[i] = req[j]
    /\ ValidDelivery(i)
    /\ pc[i] = "done" /\ pc[j] = "done"
    /\ InsertedRow(i)
    /\ Len(sent[i]) = 1 /\ sent[i][1].status = 200
    /\ sent[j] = <<DuplicateResponse(req[j].body.payment.id)>>
    /\ Cardinality(RowsOf(req[i].body.payment.id)) = 1

----------------------------------------------------------------------------
(* The name of an event as a message shows it. *)
EventName(event) ==
  IF event.t = "string" THEN event.s ELSE <<"u","n","d","e","f","i","n","e","d">>

IgnoredResponse(event) ==
  [status |-> 200,
   body |-> [message |-> "Event ignored. Only payment.captured events are processed. Received: ",
             received |-> EventName(event)]]

(* C3 as stated: every request whose event is anything other than
   "payment.captured" is answered 200 "ignored" with the event's name, and
   nothing is sent to the store. *)
C3_AnyRequestIgnored ==
  \A i \in Invocations :
    (Started(i) /\ HasPayload(i) /\ ~IsCaptured(i))
    => /\ sent[i] = <<IgnoredResponse(req[i].body.event)>>
       /\ attempts[i] = 0

(* C3, amended: every POST request received with both credentials set whose
   event is anything other than "payment.captured" is answered 200 "ignored"
   with the event's name, and nothing is sent to the store. *)
C3_PostIgnored ==
  \A i \in Invocations :
    (Started(i) /\ IsPost(i) /\ env = Configured /\ HasPayload(i) /\ ~IsCaptured(i))
    => /\ pc[i] = "done"
       /\ sent[i] = <<IgnoredResponse(req[i].body.event)>>
       /\ attempts[i] = 0
       /\ store \in PriorStores

(* A payment.failed event carrying a complete payment was acknowledged. *)
C3_Witness ==
  /\ pc[1] = "done" /\ IsPost(1) /\ env = Configured /\ HasPayload(1)
  /\ req[1].body.event.t = "string" /\ ~IsCaptured(1)
  /\ Offending(req[1].body.payment) = {}
  /\ sent[1] = <<IgnoredResponse(req[1].body.event)>>

(* C4: every payment.captured notification in which some of the four
   required fields are missing, empty or of the wrong type is answered 400
   with missing_fields listing exactly those fields, and no insert is sent
   to the store. *)
C4_MissingFieldsListed ==
  \A i \in Invocations :
    (CapturedDelivery(i) /\ Offending(req[i].body.payment) # {})
    => /\ attempts[i] = 0
       /\ pc[i] = "done"
       /\ Len(sent[i]) = 1
       /\ sent[i][1].status = 400
       /\ Range(sent[i][1].body.missing_fields) = Offending(req[i].body.payment)
       /\ Len(sent[i][1].body.missing_fields)
            = Cardinality(Offending(req[i].body.payment))

(* r is a/100 rounded to the nearest integer, a half rounding up. *)
RoundedToNearest(a, r) == -50 < 100 * r - a /\ 100 * r - a <= 50

(* C5: for every valid payment.captured notification of amount a, the amount
   of the record the handler sends to the store, of the row the store adds
   for it and of amount_rupees in the answer is a/100 rounded to the nearest
   integer, a half rounding up: 10000 gives 100, 12345 gives 123, 150
   gives 2. *)
C5_AmountRounded ==
  \A i \in Invocations :
    (ValidDelivery(i) /\ attempts[i] > 0)
    => LET a == req[i].body.payment.amount.n
           r == pending[i].registrationData.amount
       IN /\ RoundedToNearest(a, r)
          /\ a = 10000 => r = 100
          /\ a = 12345 => r = 123
          /\ a = 150 => r = 2
          /\ InsertedRow(i) => store[Len(store)].amount = r
          /\ (pc[i] = "done" /\ InsertedRow(i) /\ ~ReturnedNoRow(i))
               => sent[i][1].body.amount_rupees = r

(* A notification of 150 paise was stored and answered as 2 rupees. *)
C5_Witness ==
  /\ ValidDelivery(1) /\ pc[1] = "done" /\ InsertedRow(1) /\ ~ReturnedNoRow(1)
  /\ req[1].body.payment.amount.n = 150
  /\ store[Len(store)].amount = 2
  /\ sent[1][1].body.amount_rupees = 2

(* C6: when either credential is absent, a POST request, whatever its body,
   is answered 500 "server configuration error" and nothing is sent to the
   store. *)
C6_ConfigGate ==
  \A i \in Invocations :
    ( /\ Started(i) /\ IsPost(i)
      /\ (env.SUPABASE_URL = JUndef \/ env.SUPABASE_SERVICE_ROLE_KEY = JUndef) )
    => /\ pc[i] = "done"
       /\ sent[i] = <<[status |-> 500,
                       body |-> [error |-> "Server configuration error: Missing Supabase credentials"]]>>
       /\ attempts[i] = 0
       /\ store \in PriorStores

(* A valid notification arrived while only the write credential was absent. *)
C6_Witness ==
  /\ Started(1) /\ IsPost(1) /\ IsCaptured(1)
  /\ Offending(req[1].body.payment) = {}
  /\ env.SUPABASE_URL # JUndef /\ env.SUPABASE_SERVICE_ROLE_KEY = JUndef
  /\ Len(sent[1]) = 1 /\ sent[1][1].status = 500

(* C7: an OPTIONS request is answered with an empty 200 and any other request
   that is no POST with 405 and the allowed_methods hint; in both cases
   nothing is sent to the store, whatever the body and the configuration. *)
C7_MethodGate ==
  \A i \in Invocations :
    (Started(i) /\ ~IsPost(i))
    => /\ pc[i] = "done"
       /\ attempts[i] = 0
       /\ store \in PriorStores
       /\ Len(sent[i]) = 1
       /\ IF req[i].method = "OPTIONS"
          THEN sent[i][1] = [status |-> 200, body |-> [end |-> TRUE]]
          ELSE /\ sent[i][1].status = 405
               /\ sent[i][1].body.allowed_methods = <<"POST">>

(* A preflight carrying a valid notification was answered, credentials set. *)
C7_Witness ==
  /\ pc[1] = "done" /\ req[1].method = "OPTIONS" /\ env = Configured
  /\ IsCaptured(1) /\ Offending(req[1].body.payment) = {}
  /\ sent[1] = <<[status |-> 200, body |-> [end |-> TRUE]]>>

----------------------------------------------------------------------------
(* C8: every request that passes the event filter and the field validation
   makes exactly one insert attempt: none of its responses is sent before the
   store's result for that attempt has arrived, and whatever the store
   answers no second attempt follows. *)
C8_OneInsertAttempt ==
  \A i \in Invocations :
    ValidDelivery(i)
    => /\ attempts[i] = 1
       /\ pc[i] \in {"awaiting", "returned", "done"}
       /\ (pc[i] \in {"awaiting", "returned"}) => sent[i] = <<>>
       /\ (pc[i] = "awaiting") => result[i] = NoResult
       /\ (sent[i] # <<>>) => (result[i] # NoResult /\ pc[i] = "done" /\ Len(sent[i]) = 1)

(* An invocation answered after the store had failed its only insert. *)
C8_Witness ==
  /\ ValidDelivery(1) /\ pc[1] = "done"
  /\ FailedOtherwise(1)
  /\ attempts[1] = 1 /\ Len(sent[1]) = 1

(* A structured 500: one JSON response of status 500 with an error text. *)
Structured500(responses) ==
  /\ Len(responses) = 1
  /\ responses[1].status = 500
  /\ "error" \in DOMAIN responses[1].body

(* The steps of the try block at which the request makes the handler throw:
   reading a body that is absent or cannot be parsed, and lower-casing an
   email that passed the checks and is no string. *)
ThrowsBeforeInsert(i) ==
  \/ ~HasPayload(i)
  \/ /\ IsCaptured(i)
     /\ Truthy(PaymentId(req[i].body.payment))
     /\ Truthy(NotesEventId(req[i].body.payment))
     /\ PaymentAmount(req[i].body.payment).t = "number"
     /\ Truthy(PaymentEmail(req[i].body.payment))
     /\ PaymentEmail(req[i].body.payment).t # "string"

(* C9: no failure in the pipeline of a POST request escapes the handler, and
   each is answered with exactly one structured 500: an exception thrown
   before the insert, a store failure other than the uniqueness violation on
   payment_id (whose message and code the answer carries), and an insert
   that returned no row. *)
C9_FailuresAnswered500 ==
  \A i \in Invocations :
    (Started(i) /\ IsPost(i))
    => /\ pc[i] # "crashed"
       /\ Len(sent[i]) <= 1
       /\ (env = Configured /\ ThrowsBeforeInsert(i))
            => (pc[i] = "done" /\ Structured500(sent[i]) /\ attempts[i] = 0)
       /\ (pc[i] = "done" /\ FailedOtherwise(i))
            => /\ Structured500(sent[i])
               /\ sent[i][1].body.details = result[i].error.message
               /\ sent[i][1].body.code = result[i].error.code
       /\ (pc[i] = "done" /\ ReturnedNoRow(i)) => Structured500(sent[i])

(* A POST without a body was answered 500. *)
C9_Witness ==
  /\ pc[1] = "done" /\ IsPost(1) /\ env = Configured
  /\ req[1].body = JUndef
  /\ Structured500(sent[1])

(* c is a letter the lower-casing leaves or the lower-case form of d. *)
LowerOf(c, d) ==
  \/ c = d /\ ~\E k \in DOMAIN UpperLetters : UpperLetters[k] = d
  \/ \E k \in DOMAIN UpperLetters : UpperLetters[k] = d /\ LowerLetters[k] = c

(* out is s lower-cased and stripped of the white space at its two ends. *)
LowerCasedAndTrimmed(s, out) ==
  \E before \in 0..Len(s) :
    /\ before + Len(out) <= Len(s)
    /\ \A k \in 1..before : s[k] \in WhiteSpace
    /\ \A k \in (before + Len(out) + 1)..Len(s) : s[k] \in WhiteSpace
    /\ \A k \in 1..Len(out) : LowerOf(out[k], s[before + k])
    /\ out # <<>> => (out[1] \notin WhiteSpace /\ out[Len(out)] \notin WhiteSpace)

(* C10: in every record the handler sends to the store, and in the row the
   store adds for it, user_email is the payer's email lower-cased and without
   its surrounding white space ("  User@Example.COM " becomes
   "user@example.com"), event_id and payment_id are the notification's own
   and status is "success". *)
C10_RecordNormalized ==
  \A i \in Invocations :
    (Started(i) /\ attempts[i] > 0)
    => LET payment == req[i].body.payment
           record == pending[i].registrationData
       IN /\ record.user_email.t = "string"
          /\ LowerCasedAndTrimmed(payment.email.s, record.user_email.s)
          /\ payment.email.s = MixedEmail => record.user_email.s = PlainEmail
          /\ record.event_id = payment.notes.event_id
          /\ record.payment_id = payment.id
          /\ record.status = "success"
          /\ InsertedRow(i)
               => /\ store[Len(store)].user_email = record.user_email
                  /\ store[Len(store)].event_id = payment.notes.event_id
                  /\ store[Len(store)].payment_id = payment.id
                  /\ store[Len(store)].status = "success"

(* "  User@Example.COM " was stored as "user@example.com". *)
C10_Witness ==
  /\ ValidDelivery(1) /\ InsertedRow(1)
  /\ req[1].body.payment.email = JStr(MixedEmail)
  /\ store[Len(store)].user_email = JStr(PlainEmail)
  /\ store[Len(store)].payment_id = req[1].body.payment.id

====
